---- MODULE Spec2Model ----
(***************************************************************************)
(* A model of lib-lexin's Lexer (src/src/lib.rs): the Lexer object, its    *)
(* load operations and the byte-by-byte scan loop of Lexer::tokenize.      *)
(*                                                                         *)
(* Text.  A byte is a number in 0..255.  A Rust char is modelled by its    *)
(* code point and a String by the sequence of its chars' code points, so   *)
(* `b as char` and char::from(b) are the byte's value, and                 *)
(* String::from_utf8(vec![b]) succeeds exactly for b < 128.                *)
(***************************************************************************)
EXTENDS Integers, Sequences, FiniteSets, TLC

\* Longest buffer of the exhaustively enumerated inputs.
MaxLen == 3

(***************************************************************************)
(* Characters and string literals                                          *)
(***************************************************************************)

\* Code points of the characters the grammars and inputs are written with.
Chr ==
    ("\n" :> 10) @@ (" " :> 32) @@ ("\"" :> 34) @@ ("'" :> 39) @@
    ("(" :> 40) @@ (")" :> 41) @@ ("*" :> 42) @@ ("+" :> 43) @@ ("-" :> 45) @@
    ("." :> 46) @@ ("/" :> 47) @@ ("0" :> 48) @@ ("1" :> 49) @@ ("2" :> 50) @@
    ("3" :> 51) @@ ("4" :> 52) @@ ("5" :> 53) @@ ("6" :> 54) @@ ("7" :> 55) @@
    ("8" :> 56) @@ ("9" :> 57) @@ (":" :> 58) @@ ("E" :> 69) @@ ("N" :> 78) @@
    ("\\" :> 92) @@ ("a" :> 97) @@
    ("d" :> 100) @@ ("e" :> 101) @@ ("f" :> 102) @@ ("i" :> 105) @@
    ("n" :> 110) @@ ("r" :> 114) @@ ("s" :> 115) @@ ("t" :> 116) @@
    ("u" :> 117) @@ ("x" :> 120) @@ ("y" :> 121)

\* The String whose chars are the one-character strings of the tuple s.
Str(s) == [i \in 1..Len(s) |-> Chr[s[i]]]

\* String::from_utf8(vec![byte]) is Ok: a lone byte is valid UTF-8 iff ASCII.
FromUtf8Ok(byte) == byte < 128

\* String::len(): the length in bytes of the UTF-8 encoding (code points
\* below 256 only arise: one byte below 128, two bytes from 128 on).
RECURSIVE Utf8Len(_)
Utf8Len(s) ==
    IF s = <<>> THEN 0
    ELSE (IF Head(s) < 128 THEN 1 ELSE 2) + Utf8Len(Tail(s))

(***************************************************************************)
(* str::parse::<usize>() and str::parse::<f64>()                           *)
(***************************************************************************)

IsDigit(c) == c \in 48..57

AllDigits(s) == \A i \in 1..Len(s) : IsDigit(s[i])

\* The digit values of a string of ASCII digits.
DigitsOf(s) == [i \in 1..Len(s) |-> s[i] - 48]

RECURSIVE StripLeadingZeros(_)
StripLeadingZeros(ds) ==
    IF ds # <<>> /\ Head(ds) = 0 THEN StripLeadingZeros(Tail(ds)) ELSE ds

RECURSIVE StripTrailingZeros(_)
StripTrailingZeros(ds) ==
    IF ds # <<>> /\ ds[Len(ds)] = 0
    THEN StripTrailingZeros(SubSeq(ds, 1, Len(ds) - 1))
    ELSE ds

\* Lexicographic a <= b for digit sequences of equal length.
RECURSIVE DigitsLeq(_, _)
DigitsLeq(a, b) ==
    IF a = <<>> THEN TRUE
    ELSE IF Head(a) # Head(b) THEN Head(a) < Head(b)
    ELSE DigitsLeq(Tail(a), Tail(b))

\* usize::MAX = 2^64 - 1 on a 64-bit target, as decimal digits.
UsizeMaxDigits == <<1,8,4,4,6,7,4,4,0,7,3,7,0,9,5,5,1,6,1,5>>

\* A non-negative integer as its decimal digits, most significant first,
\* without leading zeros (<<0>> for zero).
Canonical(ds) ==
    LET n == StripLeadingZeros(ds) IN IF n = <<>> THEN <<0>> ELSE n

FitsUsize(ds) ==
    LET n == Canonical(ds) IN
    \/ Len(n) < Len(UsizeMaxDigits)
    \/ Len(n) = Len(UsizeMaxDigits) /\ DigitsLeq(n, UsizeMaxDigits)

\* token.parse::<usize>(): an optional '+', then one or more decimal digits
\* whose value fits in usize.  [ok, value].
ParseUsize(s) ==
    LET digits == IF Len(s) > 1 /\ s[1] = 43 THEN Tail(s) ELSE s
    IN  IF digits # <<>> /\ AllDigits(digits) /\ FitsUsize(DigitsOf(digits))
        THEN [ok |-> TRUE, value |-> Canonical(DigitsOf(digits))]
        ELSE [ok |-> FALSE]

\* The value of a string of decimal digits (exponents: short strings only).
RECURSIVE DecValue(_)
DecValue(ds) ==
    IF ds = <<>> THEN 0 ELSE 10 * DecValue(SubSeq(ds, 1, Len(ds) - 1)) + ds[Len(ds)]

ToLower(c) == IF c \in 65..90 THEN c + 32 ELSE c

LowerStr(s) == [i \in 1..Len(s) |-> ToLower(s[i])]

\* The recogniser of a decimal float without its sign:
\* (digits [. [digits]] | . digits) [(e|E) [+|-] digits].
F64Next(st, c) ==
    CASE st = "start" -> IF IsDigit(c) THEN "int"
                         ELSE IF c = 46 THEN "dot" ELSE "fail"
      [] st = "int"   -> IF IsDigit(c) THEN "int"
                         ELSE IF c = 46 THEN "frac"
                         ELSE IF c \in {101, 69} THEN "e" ELSE "fail"
      [] st = "dot"   -> IF IsDigit(c) THEN "frac" ELSE "fail"
      [] st = "frac"  -> IF IsDigit(c) THEN "frac"
                         ELSE IF c \in {101, 69} THEN "e" ELSE "fail"
      [] st = "e"     -> IF IsDigit(c) THEN "exp"
                         ELSE IF c \in {43, 45} THEN "esign" ELSE "fail"
      [] st = "esign" -> IF IsDigit(c) THEN "exp" ELSE "fail"
      [] st = "exp"   -> IF IsDigit(c) THEN "exp" ELSE "fail"
      [] OTHER        -> "fail"

RECURSIVE F64Scan(_, _)
F64Scan(s, st) ==
    IF s = <<>> THEN st \in {"int", "frac", "exp"}
    ELSE F64Scan(Tail(s), F64Next(st, Head(s)))

\* The position of the first char of s that is in set, or Len(s) + 1.
RECURSIVE IndexOf(_, _)
IndexOf(s, set) ==
    IF s = <<>> \/ Head(s) \in set THEN 1 ELSE 1 + IndexOf(Tail(s), set)

\* The parts of an accepted decimal float: the digits before the point,
\* the digits after it, and the exponent.
Mantissa(s) == SubSeq(s, 1, IndexOf(s, {101, 69}) - 1)
IntPart(s) == DigitsOf(SubSeq(Mantissa(s), 1, IndexOf(Mantissa(s), {46}) - 1))
FracPart(s) ==
    DigitsOf(SubSeq(Mantissa(s), IndexOf(Mantissa(s), {46}) + 1, Len(Mantissa(s))))
ExpDigits(e) == IF e # <<>> /\ Head(e) \in {43, 45} THEN Tail(e) ELSE e
ExpPart(s) ==
    LET e == SubSeq(s, IndexOf(s, {101, 69}) + 1, Len(s))
    IN  IF e = <<>> THEN 0
        ELSE (IF Head(e) = 45 THEN -1 ELSE 1) * DecValue(DigitsOf(ExpDigits(e)))

\* A finite f64 as the exact decimal it was written as:
\* (-1)^neg * 0.d1 d2 ... dn * 10^exp with d1 # 0 and dn # 0 (no digits:
\* zero).  Two texts denote the same record iff they denote the same
\* decimal; rounding to the nearest double is not modelled.
FiniteF64(neg, intDigits, fracDigits, exp) ==
    LET all == intDigits \o fracDigits
        lead == Len(all) - Len(StripLeadingZeros(all))
        mant == StripTrailingZeros(StripLeadingZeros(all))
    IN  [class |-> "finite", neg |-> neg, digits |-> mant,
         exp |-> IF mant = <<>> THEN 0 ELSE exp + Len(intDigits) - lead]

\* The text of a float after its optional sign.
Unsigned(s) == IF s # <<>> /\ Head(s) \in {43, 45} THEN Tail(s) ELSE s

\* token.parse::<f64>(): [sign] (number | inf | infinity | nan), the words
\* in any letter case.  [ok, value].
ParseF64(s) ==
    IF F64Scan(Unsigned(s), "start")
    THEN [ok |-> TRUE,
          value |-> FiniteF64(s[1] = 45, IntPart(Unsigned(s)),
                              FracPart(Unsigned(s)), ExpPart(Unsigned(s)))]
    ELSE IF LowerStr(Unsigned(s)) \in {Str(<<"i","n","f">>),
                                       Str(<<"i","n","f","i","n","i","t","y">>)}
    THEN [ok |-> TRUE, value |-> [class |-> "inf", neg |-> s[1] = 45]]
    ELSE IF LowerStr(Unsigned(s)) = Str(<<"n","a","n">>)
    THEN [ok |-> TRUE, value |-> [class |-> "nan", neg |-> s[1] = 45]]
    ELSE [ok |-> FALSE]

(***************************************************************************)
(* Types: Token, Section, the Lexer object and the locals of tokenize      *)
(***************************************************************************)

VARIABLES
    keywords,           \* Lexer.keywords: Vec<String>
    sections,           \* Lexer.sections: Vec<Section>
    symbols,            \* Lexer.symbols: Vec<(char, String)>
    buffer,             \* Lexer.buffer: Vec<u8>
    allow_whitespace,   \* Lexer.allow_whitespace: bool
    pc,                 \* "idle" (no call made on the loaded buffer),
                        \* "scan" (inside tokenize's loop), "done" (returned)
    mode,               \* tokenize local: Mode
    token,              \* tokenize local: the pending text
    tokens,             \* tokenize local: the tokens emitted so far
    section,            \* tokenize local: the candidate sections
    loc,                \* tokenize local: the (line, column) cursor
    index,              \* tokenize local: 0-based position in buffer
    result,             \* the value the last tokenize call returned
    lexed,              \* history: for each token of tokens, the text
                        \* lex_token was given, the mode it was called in
                        \* and the index of the iteration that called it
    ref                 \* history: the first buffer of the corpus a call
                        \* returned on, with what that call returned

vars == <<keywords, sections, symbols, buffer, allow_whitespace, pc, mode,
          token, tokens, section, loc, index, result, lexed, ref>>

Keyword(text, l) == [kind |-> "Keyword", text |-> text, loc |-> l]
SectionTok(name, text, l) ==
    [kind |-> "Section", name |-> name, text |-> text, loc |-> l]
Integer(value, l) == [kind |-> "Integer", value |-> value, loc |-> l]
Float(value, l) == [kind |-> "Float", value |-> value, loc |-> l]
Symbol(char, name, l) ==
    [kind |-> "Symbol", char |-> char, name |-> name, loc |-> l]
Ident(text, l) == [kind |-> "Ident", text |-> text, loc |-> l]

\* Section::new
NewSection(name, start, end) == [name |-> name, start |-> start, end |-> end]

\* Section::from_end
from_end(end) == [name |-> "", start |-> <<>>, end |-> end]

\* The return values of tokenize: Ok(tokens), or Err(FromUtf8Error).
NoResult == [status |-> "none", tokens |-> <<>>]
Ok(ts) == [status |-> "ok", tokens |-> ts]
Err == [status |-> "err", tokens |-> <<>>]

(***************************************************************************)
(* Grammars the engine is constructed with, and buffers it is given        *)
(***************************************************************************)

\* The grammar of the specification's end-to-end example.
ExampleGrammar ==
    [keywords |-> <<Str(<<"d","e","f">>), Str(<<"r","e","t","u","r","n">>)>>,
     sections |-> <<>>,
     symbols |-> <<<<Chr["("], "openbrace">>, <<Chr[")"], "closebrace">>,
                   <<Chr[":"], "column">>>>,
     allow_whitespace |-> FALSE]

\* The grammar of tests::load_test.
TestGrammar ==
    [keywords |-> <<Str(<<"d","e","f">>), Str(<<"i","f">>),
                    Str(<<"r","e","t","u","r","n">>)>>,
     sections |-> <<NewSection("string", Str(<<"\"">>), Str(<<"\"">>))>>,
     symbols |-> <<<<Chr[":"], "column">>, <<Chr["("], "openbrace">>,
                   <<Chr[")"], "closebrace">>>>,
     allow_whitespace |-> TRUE]

\* Two sections sharing a start marker; keywords that are also a number or
\* a registered symbol character; a caller-supplied entry for the space.
AmbiguousGrammar ==
    [keywords |-> <<Str(<<"1">>), Str(<<"1","0">>), Str(<<"(">>)>>,
     sections |-> <<NewSection("string", Str(<<"\"">>), Str(<<"\"">>)),
                    NewSection("char", Str(<<"\"">>), Str(<<"'">>))>>,
     symbols |-> <<<<Chr["("], "openbrace">>, <<Chr[" "], "Blank">>,
                   <<Chr[")"], "closebrace">>>>,
     allow_whitespace |-> FALSE]

\* A section whose markers are two characters long, as Section::new
\* accepts them (start: &str, end: &str).
CommentGrammar ==
    [keywords |-> <<Str(<<"i","f">>)>>,
     sections |-> <<NewSection("comment", Str(<<"/","*">>), Str(<<"*","/">>))>>,
     symbols |-> <<<<Chr["("], "openbrace">>>>,
     allow_whitespace |-> FALSE]

Grammars == {ExampleGrammar, TestGrammar, AmbiguousGrammar, CommentGrammar}

\* The characters of the exhaustively enumerated buffers; 200 is a byte
\* that is not valid single-byte text.
Alphabet ==
    {Chr["a"], Chr["1"], Chr["("], Chr[" "], Chr["\n"], Chr["\""], Chr["'"],
     Chr["\\"], 200}

BoundedBuffers == UNION {[1..n -> Alphabet] : n \in 0..MaxLen}

\* Longer buffers: the specification's examples and the test's input.
ExampleInput ==
    Str(<<"d","e","f"," ","t","e","s","t","(",")",":"," ",
          "r","e","t","u","r","n"," ","0">>)

TestInput ==
    Str(<<"d","e","f"," ","t","e","s","t","(",")",":"," ","\"",
          " ","r","e","t","u","r","n"," ","0"," ">>)

Corpus ==
    {ExampleInput, TestInput,
     ExampleInput \o Str(<<"\n">>),
     Str(<<"1","0"," ">>), Str(<<"1","0",".","5"," ">>),
     Str(<<"+","1","0"," ">>), Str(<<"-","1","0"," ">>),
     Str(<<"0","1","0"," ">>), Str(<<".","5"," ">>), Str(<<"."," ">>),
     Str(<<"1","e","5"," ">>), Str(<<"1","e"," ">>), Str(<<"N","a","N"," ">>),
     Str(<<"i","n","f"," ">>), Str(<<"1","0","(","1","0",")","\n","1","0"," ">>),
     Str(<<"1","0"," ","1","0",".","5"," ","a","1"," ">>),
     Str(<<"1","8","4","4","6","7","4","4","0","7","3","7","0","9","5","5",
           "1","6","1","5"," ">>),
     Str(<<"1","8","4","4","6","7","4","4","0","7","3","7","0","9","5","5",
           "1","6","1","6"," ">>),
     Str(<<"\"","\\","\"","\"">>), Str(<<"\"","\\","\"","\""," ">>),
     Str(<<"\"","a","a","'"," ">>), Str(<<"\"","a","a","'">>),
     Str(<<"a","\"","a","a","\""," ">>),
     Str(<<"\"","a","\\">>) \o <<200>> \o Str(<<"\""," ">>),
     Str(<<"/","*"," ","x"," ","*","/"," ">>),
     Str(<<"/","*"," ","x"," ","*","/"," ","i","f"," ">>)}

Inputs == BoundedBuffers \cup Corpus

\* The buffers a load may bring: any input into an engine whose buffer is
\* empty (as Lexer::new leaves it), a buffer of the corpus over a loaded one.
Loadable == IF buffer = <<>> THEN Inputs ELSE Corpus

\* A &str is valid UTF-8; of the buffers above, those made of ASCII only.
StrLoadable == {s \in Loadable : \A i \in 1..Len(s) : s[i] < 128}

(***************************************************************************)
(* Lexer: helpers of tokenize                                              *)
(***************************************************************************)

None == <<>>
Some(x) == <<x>>

Min(S) == CHOOSE x \in S : \A y \in S : x <= y

\* Lexer::symbols_contain: the name of the first entry for the character.
symbols_contain(value) ==
    LET hits == {i \in 1..Len(symbols) : symbols[i][1] = value}
    IN  IF hits = {} THEN None ELSE Some(symbols[Min(hits)][2])

\* Lexer::section_exists: Ok(name of the first section with that start and
\* end) or Err(()).
section_exists(start, end) ==
    LET hits == {i \in 1..Len(sections) :
                    sections[i].start = start /\ sections[i].end = end}
    IN  IF hits = {} THEN [ok |-> FALSE]
        ELSE [ok |-> TRUE, name |-> sections[Min(hits)].name]

\* The matches vector of is_section: the end markers, in declaration
\* order, of the sections of secs whose start marker is start.
RECURSIVE StartMatches(_, _)
StartMatches(secs, start) ==
    IF secs = <<>> THEN <<>>
    ELSE IF Head(secs).start = start
    THEN <<Head(secs).end>> \o StartMatches(Tail(secs), start)
    ELSE StartMatches(Tail(secs), start)

\* A variant of is_section that reports only the first section with the
\* start marker.
is_section_start_first_only(start) ==
    LET matches == StartMatches(sections, start)
    IN  IF Len(matches) # 0
        THEN [ok |-> TRUE, tag |-> "Start", ends |-> <<matches[1]>>]
        ELSE [ok |-> FALSE]

\* Lexer::is_section(Value::Start(start)): Ok(StartOrSection::Start(the end
\* markers of the sections with that start)), or Err(()) when there is none.
is_section_start(start) ==
    LET matches == StartMatches(sections, start)
    IN  IF Len(matches) # 0 THEN [ok |-> TRUE, tag |-> "Start", ends |-> matches]
        ELSE [ok |-> FALSE]

\* Lexer::is_section(Value::End(start, end)): Ok(StartOrSection::Section(the
\* first section with that start and end)), or Err(()).
is_section_end(start, end) ==
    LET hits == {i \in 1..Len(sections) :
                    sections[i].end = end /\ sections[i].start = start}
    IN  IF hits = {} THEN [ok |-> FALSE]
        ELSE [ok |-> TRUE, tag |-> "Section", section |-> sections[Min(hits)]]

\* A variant of is_numeric that tries the float parse first.
is_numeric_float_first(tok, l) ==
    IF ParseF64(tok).ok THEN Float(ParseF64(tok).value, l)
    ELSE IF ParseUsize(tok).ok THEN Integer(ParseUsize(tok).value, l)
    ELSE Ident(tok, l)

\* Lexer::is_numeric
is_numeric(tok, l) ==
    IF ParseUsize(tok).ok THEN Integer(ParseUsize(tok).value, l)
    ELSE IF ParseF64(tok).ok THEN Float(ParseF64(tok).value, l)
    ELSE Ident(tok, l)

\* A variant of lex_token that looks a one-character token up in the
\* symbols before it looks the token up in the keywords.
lex_token_symbol_first(tok, l) ==
    IF tok = Str(<<"\n">>) THEN None
    ELSE IF tok = <<>> THEN
        IF allow_whitespace THEN Some(Ident(Str(<<" ">>), l)) ELSE None
    ELSE IF Utf8Len(tok) = 1 /\ symbols_contain(tok[1]) # None THEN
        Some(Symbol(tok[1], symbols_contain(tok[1])[1], l))
    ELSE IF \E i \in 1..Len(keywords) : keywords[i] = tok THEN
        Some(Keyword(tok, l))
    ELSE IF Utf8Len(tok) = 1 THEN Some(is_numeric(tok, l))
    ELSE IF section_exists(<<tok[1]>>, <<tok[Len(tok)]>>).ok THEN
        Some(SectionTok(section_exists(<<tok[1]>>, <<tok[Len(tok)]>>).name,
                        SubSeq(tok, 2, Len(tok) - 1), l))
    ELSE Some(is_numeric(tok, l))

\* A variant of lex_token that drops the empty text whatever the flag says.
lex_token_drop_empty(tok, l) ==
    IF tok = Str(<<"\n">>) THEN None
    ELSE IF tok = <<>> THEN None
    ELSE IF \E i \in 1..Len(keywords) : keywords[i] = tok THEN
        Some(Keyword(tok, l))
    ELSE IF Utf8Len(tok) = 1 THEN
        IF symbols_contain(tok[1]) # None
        THEN Some(Symbol(tok[1], symbols_contain(tok[1])[1], l))
        ELSE Some(is_numeric(tok, l))
    ELSE IF section_exists(<<tok[1]>>, <<tok[Len(tok)]>>).ok THEN
        Some(SectionTok(section_exists(<<tok[1]>>, <<tok[Len(tok)]>>).name,
                        SubSeq(tok, 2, Len(tok) - 1), l))
    ELSE Some(is_numeric(tok, l))

\* Lexer::lex_token.  The slices token[0..1] and token[len-1..len] are the
\* first and the last char: both are ASCII wherever tokenize calls this.
lex_token(tok, l) ==
    IF tok = Str(<<"\n">>) THEN None
    ELSE IF tok = <<>> THEN
        IF allow_whitespace THEN Some(Ident(Str(<<" ">>), l)) ELSE None
    ELSE IF \E i \in 1..Len(keywords) : keywords[i] = tok THEN
        Some(Keyword(tok, l))
    ELSE IF Utf8Len(tok) = 1 THEN
        IF symbols_contain(tok[1]) # None
        THEN Some(Symbol(tok[1], symbols_contain(tok[1])[1], l))
        ELSE Some(is_numeric(tok, l))
    ELSE IF section_exists(<<tok[1]>>, <<tok[Len(tok)]>>).ok THEN
        Some(SectionTok(section_exists(<<tok[1]>>, <<tok[Len(tok)]>>).name,
                        SubSeq(tok, 2, Len(tok) - 1), l))
    ELSE Some(is_numeric(tok, l))

(***************************************************************************)
(* Lexer::new, Lexer::load_str, Lexer::load_file                           *)
(***************************************************************************)

\* A variant of the prologue that leaves the pending text of the previous
\* call in place.
LocalsInit_keep_token ==
    /\ mode' = "Normal"
    /\ token' = token
    /\ tokens' = <<>>
    /\ section' = <<>>
    /\ loc' = <<1, 1>>
    /\ index' = 0

\* The locals of tokenize as its prologue sets them.
LocalsInit ==
    /\ mode' = "Normal"
    /\ token' = <<>>
    /\ tokens' = <<>>
    /\ section' = <<>>
    /\ loc' = <<1, 1>>
    /\ index' = 0

\* Lexer::new(keywords, sections, symbols, allow_whitespace)
Init ==
    /\ \E g \in Grammars :
        /\ keywords = g.keywords
        /\ sections = g.sections
        /\ symbols = g.symbols
        /\ allow_whitespace = g.allow_whitespace
    /\ buffer = <<>>
    /\ pc = "idle"
    /\ mode = "Normal"
    /\ token = <<>>
    /\ tokens = <<>>
    /\ section = <<>>
    /\ loc = <<1, 1>>
    /\ index = 0
    /\ result = NoResult
    /\ lexed = <<>>
    /\ ref = <<>>

\* Lexer::load_str(string): the buffer becomes the string's bytes.
load_str ==
    /\ pc \in {"idle", "done"}
    /\ \E string \in StrLoadable : buffer' = string
    /\ pc' = "idle"
    /\ result' = NoResult
    /\ lexed' = <<>>
    /\ UNCHANGED <<keywords, sections, symbols, allow_whitespace, mode, token,
                   tokens, section, loc, index, ref>>

\* Lexer::load_file(filename): the buffer becomes the file's bytes, or the
\* read fails and the buffer is left as it was.
load_file ==
    /\ pc \in {"idle", "done"}
    /\ \E read \in {[ok |-> FALSE, bytes |-> <<>>]}
                   \cup {[ok |-> TRUE, bytes |-> b] : b \in Loadable} :
            buffer' = IF read.ok THEN read.bytes ELSE buffer
    /\ pc' = "idle"
    /\ result' = NoResult
    /\ lexed' = <<>>
    /\ UNCHANGED <<keywords, sections, symbols, allow_whitespace, mode, token,
                   tokens, section, loc, index, ref>>

(***************************************************************************)
(* Lexer::tokenize                                                         *)
(***************************************************************************)

\* The (char, name) entry tokenize adds for the space character.
SpaceEntry == <<Chr[" "], "Space">>

\* A variant of the prologue that adds the space entry on every call.
InjectSpace_every_call(syms) == Append(syms, SpaceEntry)

\* Lines 233-235: the symbols after the prologue of tokenize.
InjectSpace(syms) ==
    IF symbols_contain(Chr[" "]) = None THEN Append(syms, SpaceEntry) ELSE syms

\* tokenize, lines 232-243: the space symbol is added if no entry for the
\* space exists, and the locals are initialised.
tokenize_begin ==
    /\ pc \in {"idle", "done"}
    /\ symbols' = InjectSpace(symbols)
    /\ LocalsInit
    /\ lexed' = <<>>
    /\ pc' = "scan"
    /\ UNCHANGED <<keywords, sections, buffer, allow_whitespace, result, ref>>

\* tokens.push of lex_token's result, if any (lex_token(..).map(push)).
Emit(ts, tok, l) == ts \o lex_token(tok, l)

\* The history kept with Emit: the text of each token pushed, the mode and
\* the index of the iteration that pushed it.
Note(lx, tok, l) ==
    IF lex_token(tok, l) = None THEN lx
    ELSE Append(lx, [text |-> tok, mode |-> mode, at |-> index])

\* The history kept with a return: the first returned value on a buffer of
\* the corpus is remembered with that buffer.
Remember(returned) ==
    IF ref = <<>> /\ buffer \in Corpus
    THEN <<[buffer |-> buffer, result |-> returned]>>
    ELSE ref

\* Lines 289-294: the cursor after the byte decoded as character.
Advance(l, character) ==
    IF character = Str(<<"\n">>) THEN <<l[1] + 1, 1>> ELSE <<l[1], l[2] + 1>>

\* A variant in which a section still open at the byte before the last is
\* reported as an error as well.
DecodeFails_or_unterminated ==
    \/ ~FromUtf8Ok(buffer[index + 1])
    \/ mode = "Section" /\ index + 2 >= Len(buffer)

\* Line 246: decoding the byte at index fails, and `?` returns the error.
DecodeFails == ~FromUtf8Ok(buffer[index + 1])

\* Line 246, the error path: the call returns Err and its locals are gone.
scan_error ==
    /\ pc = "scan"
    /\ index < Len(buffer)
    /\ DecodeFails
    /\ result' = Err
    /\ ref' = Remember(Err)
    /\ lexed' = <<>>
    /\ pc' = "done"
    /\ LocalsInit
    /\ UNCHANGED <<keywords, sections, symbols, buffer, allow_whitespace>>

\* Line 263-264: the condition of the symbol flush, given the candidates.
SymbolFlush(sec) ==
    /\ \/ symbols_contain(buffer[index + 1]) # None
       \/ symbols_contain(buffer[index + 2]) # None
    /\ Len(sec) = 0

\* Lines 248-267 and 289-295: one iteration in Normal mode, a byte follows.
scan_normal ==
    /\ pc = "scan"
    /\ index < Len(buffer)
    /\ ~DecodeFails
    /\ index + 1 < Len(buffer)
    /\ mode = "Normal"
    /\ LET character == <<buffer[index + 1]>>
           start == is_section_start(character)
           newline == ~start.ok /\ character = Str(<<"\n">>)
           tok1 == IF start.ok THEN token \o character
                   ELSE IF newline THEN <<>>
                   ELSE IF character # Str(<<" ">>) THEN token \o character
                   ELSE token
           toks1 == IF newline THEN Emit(tokens, token, loc) ELSE tokens
           lexed1 == IF newline THEN Note(lexed, token, loc) ELSE lexed
           sec1 == IF start.ok
                   THEN section \o [i \in 1..Len(start.ends) |->
                            [from_end(start.ends[i]) EXCEPT !.start = character]]
                   ELSE section
           flush == SymbolFlush(sec1)
       IN  /\ mode' = IF start.ok THEN "Section" ELSE mode
           /\ section' = sec1
           /\ tokens' = IF flush THEN Emit(toks1, tok1, loc) ELSE toks1
           /\ lexed' = IF flush THEN Note(lexed1, tok1, loc) ELSE lexed1
           /\ token' = IF flush THEN <<>> ELSE tok1
           /\ loc' = Advance(loc, character)
           /\ index' = index + 1
    /\ UNCHANGED <<keywords, sections, symbols, buffer, allow_whitespace, pc,
                   result, ref>>

\* Line 276: the section closes on this character (an end marker of a
\* section with the candidates' start), or the byte before the last is
\* reached.
Closes(character) ==
    \/ is_section_end(section[1].start, character).ok
    \/ index + 2 >= Len(buffer)

\* Lines 268-286 and 289-295: one iteration in Section mode, a byte follows.
\* (The println!("Closed") of line 277 writes to stdout and is not state.)
scan_section ==
    /\ pc = "scan"
    /\ index < Len(buffer)
    /\ ~DecodeFails
    /\ index + 1 < Len(buffer)
    /\ mode = "Section"
    /\ LET character == <<buffer[index + 1]>>
           escape == character = Str(<<"\\">>)
           \* line 270: never true here, since a byte follows
           cut == escape /\ index + 1 >= Len(buffer)
           close == ~escape /\ Closes(character)
           tok1 == IF escape THEN token \o <<buffer[index + 2]>>
                   ELSE token \o character
       IN  /\ tokens' = IF cut THEN <<>>
                        ELSE IF close THEN Emit(tokens, tok1, loc) ELSE tokens
           /\ lexed' = IF close /\ ~cut THEN Note(lexed, tok1, loc) ELSE lexed
           /\ section' = IF cut \/ close THEN <<>> ELSE section
           /\ token' = IF cut \/ close THEN <<>> ELSE tok1
           /\ mode' = IF cut \/ close THEN "Normal" ELSE mode
           /\ loc' = IF cut THEN <<1, 1>> ELSE Advance(loc, character)
           /\ index' = IF cut THEN 0
                       ELSE IF escape THEN index + 2 ELSE index + 1
           /\ pc' = IF cut THEN "done" ELSE pc
           /\ result' = IF cut THEN Ok(tokens) ELSE result
           /\ ref' = IF cut THEN Remember(Ok(tokens)) ELSE ref
    /\ UNCHANGED <<keywords, sections, symbols, buffer, allow_whitespace>>

\* Lines 247 and 289-295: the last byte is decoded and only moves the cursor.
scan_last ==
    /\ pc = "scan"
    /\ index < Len(buffer)
    /\ ~DecodeFails
    /\ ~(index + 1 < Len(buffer))
    /\ loc' = Advance(loc, <<buffer[index + 1]>>)
    /\ index' = index + 1
    /\ UNCHANGED <<keywords, sections, symbols, buffer, allow_whitespace, pc,
                   mode, token, tokens, section, result, lexed, ref>>

\* A variant of the return value that flushes the text still pending when
\* the loop ends.
ReturnValue_flushing == Ok(Emit(tokens, token, loc))

\* Line 298: Ok(tokens); the pending text is dropped with the locals.
ReturnValue == Ok(tokens)

\* Lines 244 and 298: the loop ends and the tokens are returned.
tokenize_return ==
    /\ pc = "scan"
    /\ ~(index < Len(buffer))
    /\ result' = ReturnValue
    /\ ref' = Remember(ReturnValue)
    /\ pc' = "done"
    /\ LocalsInit
    /\ UNCHANGED <<keywords, sections, symbols, buffer, allow_whitespace, lexed>>

Next ==
    \/ load_str
    \/ load_file
    \/ tokenize_begin
    \/ scan_error
    \/ scan_normal
    \/ scan_section
    \/ scan_last
    \/ tokenize_return

Spec == Init /\ [][Next]_vars

(***************************************************************************)
(* Vocabulary of the properties                                            *)
(***************************************************************************)

\* The engine was constructed with grammar g.
ConstructedWith(g) ==
    /\ keywords = g.keywords
    /\ sections = g.sections
    /\ allow_whitespace = g.allow_whitespace
    /\ symbols \in {g.symbols, Append(g.symbols, SpaceEntry)}

\* A token sequence with the locations blanked.
NoLoc(ts) == [i \in 1..Len(ts) |-> [ts[i] EXCEPT !.loc = <<0, 0>>]]

\* tokenize has returned Ok with exactly the tokens ts, locations ignored.
Returned(ts) ==
    /\ pc = "done"
    /\ result.status = "ok"
    /\ NoLoc(result.tokens) = NoLoc(ts)

\* The text e occurs in the text t.
Occurs(e, t) ==
    \E i \in 1..(Len(t) - Len(e) + 1) : SubSeq(t, i, i + Len(e) - 1) = e

\* A payload: valid single-byte text without a backslash.
IsPayload(t) == \A i \in 1..Len(t) : t[i] < 128 /\ t[i] # Chr["\\"]

\* The buffer is the text a followed by exactly Len(buffer) - Len(a) bytes.
StartsWith(a) == Len(buffer) >= Len(a) /\ SubSeq(buffer, 1, Len(a)) = a

\* The buffer from position Len(a) + 1 to the end less its last n bytes.
Middle(a, n) == SubSeq(buffer, Len(a) + 1, Len(buffer) - n)

\* The buffer is s, a payload and then e.
Delimited(s, e) ==
    /\ Len(buffer) >= Len(s) + Len(e)
    /\ StartsWith(s)
    /\ SubSeq(buffer, Len(buffer) - Len(e) + 1, Len(buffer)) = e
    /\ IsPayload(Middle(s, Len(e)))

\* The characters of the Symbol tokens of ts, in order.
SymbolsOf(ts) ==
    LET IsSymbol(t) == t.kind = "Symbol"
        syms == SelectSeq(ts, IsSymbol)
    IN  [i \in 1..Len(syms) |-> syms[i].char]

\* The characters of the text t that are neither a space nor a newline.
Visible(t) ==
    LET Shows(c) == c \notin {Chr[" "], Chr["\n"]}
    IN  SelectSeq(t, Shows)

\* The token sequence of the end-to-end example, locations blanked.
ExampleTokens ==
    <<Keyword(Str(<<"d","e","f">>), <<0, 0>>),
      Ident(Str(<<"t","e","s","t">>), <<0, 0>>),
      Symbol(Chr["("], "openbrace", <<0, 0>>),
      Symbol(Chr[")"], "closebrace", <<0, 0>>),
      Symbol(Chr[":"], "column", <<0, 0>>),
      Keyword(Str(<<"r","e","t","u","r","n">>), <<0, 0>>),
      Integer(<<0>>, <<0, 0>>)>>

\* The characters that have an entry in symbols.
SymbolChars == {symbols[i][1] : i \in 1..Len(symbols)}

\* The tokens emitted so far by the call in progress, or returned by the
\* call that ended.
Emitted == IF pc = "done" THEN result.tokens ELSE tokens

\* The end markers of the sections whose start marker is start.
EndsFor(start) ==
    {sections[i].end : i \in {n \in 1..Len(sections) : sections[n].start = start}}

\* The symbol list has an entry for the space character.
HasSpaceEntry(syms) == \E i \in 1..Len(syms) : syms[i][1] = Chr[" "]

\* The text t is one of the keywords.
IsKeyword(t) == \E i \in 1..Len(keywords) : keywords[i] = t

(***************************************************************************)
(* C1.  With keywords {def, return}, symbols ( ) : and no sections,        *)
(* tokenizing "def test(): return 0" returns exactly Keyword(def),         *)
(* Ident(test), Symbol('('), Symbol(')'), Symbol(':'), Keyword(return),    *)
(* Integer(0), in that order (locations ignored, allow_whitespace off).    *)
(***************************************************************************)
C1_ExampleEndToEnd ==
    (pc = "done" /\ ConstructedWith(ExampleGrammar) /\ buffer = ExampleInput)
        => Returned(ExampleTokens)

(***************************************************************************)
(* C2.  Round trip: for every declared section (name, s, e) and every      *)
(* payload T that contains no occurrence of e and no backslash, tokenizing *)
(* the buffer s T e returns exactly one token, Section(name, T, _).        *)
(***************************************************************************)
C2_RoundTrip ==
    \A k \in 1..Len(sections) :
        LET sec == sections[k]
            T == Middle(sec.start, Len(sec.end))
        IN  (pc = "done" /\ Delimited(sec.start, sec.end) /\ ~Occurs(sec.end, T))
                => Returned(<<SectionTok(sec.name, T, <<0, 0>>)>>)

(***************************************************************************)
(* C3.  For every buffer made only of registered symbol characters,        *)
(* spaces and newlines, tokenize returns exactly one Symbol token for each *)
(* non-space, non-newline character, in the order of the input.            *)
(***************************************************************************)
C3_SymbolsOnly ==
    (/\ pc = "done"
     /\ \A i \in 1..Len(buffer) :
            buffer[i] \in SymbolChars \cup {Chr[" "], Chr["\n"]})
        => /\ result.status = "ok"
           /\ SymbolsOf(result.tokens) = Visible(buffer)

(***************************************************************************)
(* C4.  Keyword matching takes priority over every other classification:   *)
(* a keyword that appears verbatim as a standalone token is emitted as     *)
(* Keyword, never Ident, Integer, Float or Symbol, also when its text is a *)
(* valid number or a single registered symbol character.                   *)
(***************************************************************************)
C4_KeywordPriority ==
    /\ Len(Emitted) = Len(lexed)
    /\ \A i \in 1..Len(lexed) :
        IsKeyword(lexed[i].text)
            => /\ Emitted[i].kind = "Keyword"
               /\ Emitted[i].text = lexed[i].text
    /\ \A k \in 1..Len(keywords) :
        (/\ pc = "done"
         /\ result.status = "ok"
         /\ StartsWith(keywords[k] \o Str(<<" ">>)))
            => /\ result.tokens # <<>>
               /\ NoLoc(<<result.tokens[1]>>) = <<Keyword(keywords[k], <<0, 0>>)>>

\* Reached: the keywords "10" (a number) and "(" (a registered symbol) of
\* AmbiguousGrammar were both returned as Keyword tokens.
C4_Witness ==
    /\ pc = "done"
    /\ ConstructedWith(AmbiguousGrammar)
    /\ \E i, j \in 1..Len(result.tokens) :
        /\ NoLoc(<<result.tokens[i]>>) = <<Keyword(Str(<<"1","0">>), <<0, 0>>)>>
        /\ NoLoc(<<result.tokens[j]>>) = <<Keyword(Str(<<"(">>), <<0, 0>>)>>

(***************************************************************************)
(* C5.  Ambiguous starts: when two declared sections share the start       *)
(* marker and differ in the end marker, a buffer that opens with the start *)
(* marker and is closed by the second section's end marker produces a      *)
(* Section token with the second section's name, not the first's.          *)
(***************************************************************************)
C5_AmbiguousStart ==
    \A j, k \in 1..Len(sections) :
        LET first == sections[j]
            second == sections[k]
            T == Middle(second.start, Len(second.end))
        IN  (/\ j < k
             /\ first.start = second.start
             /\ first.end # second.end
             /\ pc = "done"
             /\ Delimited(second.start, second.end)
             /\ ~Occurs(first.end, T)
             /\ ~Occurs(second.end, T))
                => /\ result.status = "ok"
                   /\ \E i \in 1..Len(result.tokens) :
                        /\ result.tokens[i].kind = "Section"
                        /\ result.tokens[i].name = second.name
                   /\ \A i \in 1..Len(result.tokens) :
                        result.tokens[i].kind = "Section"
                            => result.tokens[i].name # first.name

(***************************************************************************)
(* C6.  Escaping: tokenizing start marker s, a backslash, the end marker e *)
(* and a second e returns a single token, a Section token whose text       *)
(* contains the escaped end marker; never two tokens.                      *)
(***************************************************************************)
C6_Escaping ==
    \A k \in 1..Len(sections) :
        LET sec == sections[k] IN
        (/\ pc = "done"
         /\ buffer = sec.start \o Str(<<"\\">>) \o sec.end \o sec.end)
            => /\ result.status = "ok"
               /\ Len(result.tokens) = 1
               /\ result.tokens[1].kind = "Section"
               /\ Occurs(sec.end, result.tokens[1].text)

(***************************************************************************)
(* C7.  An unterminated section never loses data and never fails: when the *)
(* buffer ends while a section is open, tokenize succeeds and emits the    *)
(* text accumulated since the start marker as a Section token.             *)
(***************************************************************************)
C7_Unterminated ==
    \A k \in 1..Len(sections) :
        LET sec == sections[k]
            T == Middle(sec.start, 0)
        IN  (/\ pc = "done"
             /\ StartsWith(sec.start)
             /\ T # <<>>
             /\ IsPayload(T)
             /\ \A e \in EndsFor(sec.start) : ~Occurs(e, T))
                => /\ result.status = "ok"
                   /\ \E i \in 1..Len(result.tokens) :
                        /\ result.tokens[i].kind = "Section"
                        /\ result.tokens[i].text = T

(***************************************************************************)
(* C8.  Numeric classification order: a completed plain token that is not  *)
(* a keyword or a symbol is Integer when it parses as a non-negative       *)
(* integer, otherwise Float when it parses as a floating-point number,     *)
(* otherwise Ident carrying exactly the token's text; so "10" is Integer   *)
(* and "10.5" is Float.                                                    *)
(***************************************************************************)
C8_NumericOrder ==
    \A i \in 1..Len(lexed) :
        LET t == lexed[i].text
            tok == Emitted[i]
        IN  (/\ lexed[i].mode = "Normal"
             /\ t # <<>>
             /\ ~IsKeyword(t)
             /\ ~(Len(t) = 1 /\ t[1] \in SymbolChars))
                => IF ParseUsize(t).ok
                   THEN tok.kind = "Integer" /\ tok.value = ParseUsize(t).value
                   ELSE IF ParseF64(t).ok
                   THEN tok.kind = "Float" /\ tok.value = ParseF64(t).value
                   ELSE tok.kind = "Ident" /\ tok.text = t
\* Reached: "10 10.5 a1 " returned Integer(10), Float(10.5), Ident(a1).
C8_Witness ==
    /\ ConstructedWith(ExampleGrammar)
    /\ buffer = Str(<<"1","0"," ","1","0",".","5"," ","a","1"," ">>)
    /\ Returned(<<Integer(<<1, 0>>, <<0, 0>>),
                  Float([class |-> "finite", neg |-> FALSE,
                         digits |-> <<1, 0, 5>>, exp |-> 2], <<0, 0>>),
                  Ident(Str(<<"a","1">>), <<0, 0>>)>>)

(***************************************************************************)
(* C9.  tokenize fails only if some byte of the buffer cannot be           *)
(* interpreted as valid single-byte text; the failure is all-or-nothing    *)
(* (an error and none of the tokens emitted before the bad byte); no other *)
(* input condition (unterminated section, ambiguous candidates, empty      *)
(* buffer) makes tokenize fail.                                            *)
(***************************************************************************)
C9_FailsOnlyOnBadByte ==
    pc = "done" =>
        /\ result.status \in {"ok", "err"}
        /\ result.status = "err" =>
            /\ \E i \in 1..Len(buffer) : buffer[i] >= 128
            /\ result.tokens = <<>>
        /\ (\A i \in 1..Len(buffer) : buffer[i] < 128) => result.status = "ok"
\* Reached: the call failed on "( " followed by the byte 200, after the
\* Symbol token for "(" had been emitted.
C9_Witness ==
    /\ pc = "done"
    /\ result = Err
    /\ buffer = Str(<<"(", " ">>) \o <<200>>

(***************************************************************************)
(* C10.  Across any sequence of load and tokenize calls, the only change   *)
(* tokenize makes to the grammar is adding one (' ', "Space") symbol       *)
(* entry, and only when no entry for the space exists: keywords, sections, *)
(* allow_whitespace and the buffer are unchanged, a caller-supplied space  *)
(* entry is kept, and there is never more than one engine-added entry.     *)
(***************************************************************************)
C10_GrammarFrame ==
    /\ [](\E g \in Grammars :
            /\ ConstructedWith(g)
            /\ HasSpaceEntry(g.symbols) => symbols = g.symbols)
    /\ [][/\ keywords' = keywords
          /\ sections' = sections
          /\ allow_whitespace' = allow_whitespace
          /\ (pc = "scan" \/ pc' = "scan") => buffer' = buffer
          /\ symbols' # symbols =>
                /\ pc # "scan" /\ pc' = "scan"
                /\ ~HasSpaceEntry(symbols)
                /\ symbols' = Append(symbols, SpaceEntry)]_vars

\* Reached: a second tokenize call is scanning on an engine whose first
\* call added the space entry.
C10_Witness ==
    /\ pc = "scan"
    /\ result.status = "ok"
    /\ index > 0
    /\ symbols = Append(TestGrammar.symbols, SpaceEntry)

(***************************************************************************)
(* C11.  tokenize is a pure function of the grammar and the buffer: a call *)
(* returns what an earlier call of the same engine returned on the same    *)
(* buffer, be it the call just before (made before the space entry was     *)
(* added, if it was the first) or a call made before other buffers were    *)
(* loaded and tokenized; no scan state carries over between calls.         *)
(***************************************************************************)
C11_Pure ==
    /\ [](pc = "done" /\ ref # <<>> /\ buffer = ref[1].buffer
            => result = ref[1].result)
    /\ [][pc = "scan" /\ pc' = "done" /\ result.status # "none"
            => result' = result]_vars

\* Reached: a later call is about to return tokens on the buffer whose
\* result was remembered, the result of the call before it still held.
C11_Witness ==
    /\ pc = "scan"
    /\ ~(index < Len(buffer))
    /\ tokens # <<>>
    /\ result.status = "ok"
    /\ ref # <<>>
    /\ buffer = ref[1].buffer
    /\ symbols # ExampleGrammar.symbols
    /\ keywords = ExampleGrammar.keywords

(***************************************************************************)
(* C12.  Section markers may be several characters long: with a declared   *)
(* section whose start or end marker has more than one character, such as  *)
(* (comment, "/*", "*/"), a buffer made of the start marker, a text free   *)
(* of the end marker, the end marker and then further input, as in         *)
(* "/* x */ ", yields a Section token with the section's name and the text *)
(* between the markers.                                                    *)
(***************************************************************************)
C12_MultiCharMarkers ==
    pc = "done" =>
        \A i \in 1..Len(sections) : \A n \in 1..Len(buffer) :
            LET s == sections[i].start
                e == sections[i].end
                text == SubSeq(buffer, Len(s) + 1, n - 1)
            IN  (/\ Len(s) > 1 \/ Len(e) > 1
                 /\ StartsWith(s)
                 /\ n > Len(s)
                 /\ n + Len(e) - 1 < Len(buffer)
                 /\ SubSeq(buffer, n, n + Len(e) - 1) = e
                 /\ IsPayload(text)
                 /\ ~Occurs(e, text))
                => /\ result.status = "ok"
                   /\ \E j \in 1..Len(result.tokens) :
                        /\ result.tokens[j].kind = "Section"
                        /\ result.tokens[j].name = sections[i].name
                        /\ result.tokens[j].text = text

\* The (line, column) of the byte at 0-based index k of the buffer: one
\* line per newline before it, one column per byte since the last newline.
PosOf(k) ==
    LET newlines == {j \in 1..k : buffer[j] = Chr["\n"]}
        last == IF newlines = {} THEN 0
                ELSE CHOOSE j \in newlines : \A m \in newlines : m <= j
    IN  <<1 + Cardinality(newlines), 1 + (k - last)>>

\* The 0-based index of the first character of the text of the i-th token,
\* for a token emitted in Normal mode: its characters are consecutive bytes,
\* the last of them the byte at lexed[i].at unless that byte is a space or
\* a newline, which are never part of a pending text.
FirstIndex(i) ==
    LET last == IF buffer[lexed[i].at + 1] \in {Chr[" "], Chr["\n"]}
                THEN lexed[i].at - 1 ELSE lexed[i].at
    IN  last - Len(lexed[i].text) + 1

(***************************************************************************)
(* C13.  The location every emitted token carries is the 1-based (line,    *)
(* column) of the first character of the token's text in the buffer;       *)
(* stated for the tokens emitted in Normal mode with a text that is not    *)
(* empty.                                                                  *)
(***************************************************************************)
C13_LocationOfFirstCharacter ==
    pc = "done" =>
        \A i \in 1..Len(lexed) :
            lexed[i].mode = "Normal" /\ lexed[i].text # <<>>
                => result.tokens[i].loc = PosOf(FirstIndex(i))

\* The i-th emitted token has an empty text or consists of a space.
IsBlank(i) ==
    \/ /\ Emitted[i].kind \in {"Keyword", "Ident", "Section"}
       /\ Emitted[i].text \in {<<>>, Str(<<" ">>)}
    \/ /\ Emitted[i].kind = "Symbol"
       /\ Emitted[i].char = Chr[" "]

\* A step of the scan that reads a space in Normal mode while the pending
\* text is empty: the symbol flush of lines 263-267 is given the empty text.
EmptyFlushStep ==
    /\ pc = "scan"
    /\ pc' = "scan"
    /\ mode = "Normal"
    /\ index + 1 < Len(buffer)
    /\ buffer[index + 1] = Chr[" "]
    /\ token = <<>>
    /\ index' = index + 1

(***************************************************************************)
(* C14.  Whenever the pending text is flushed while empty, nothing is      *)
(* emitted if allow_whitespace is false and exactly one Ident(" ") token   *)
(* is emitted if it is true; hence with allow_whitespace false no emitted  *)
(* token has an empty text or consists of a space.                         *)
(***************************************************************************)
C14_NoBlankToken ==
    /\ \A i \in 1..Len(lexed) :
        lexed[i].text = <<>>
            => /\ allow_whitespace
               /\ Emitted[i] = Ident(Str(<<" ">>), Emitted[i].loc)
    /\ ~allow_whitespace => \A i \in 1..Len(Emitted) : ~IsBlank(i)

(***************************************************************************)
(* C14, amended.  Whenever the pending text is flushed while empty,        *)
(* nothing is emitted if allow_whitespace is false and exactly one         *)
(* Ident(" ") token is emitted if it is true; hence with allow_whitespace  *)
(* false no emitted token other than a Section token has an empty text or  *)
(* consists of a space (a Section token carries the text between its       *)
(* markers, which may be empty or a space).                                *)
(***************************************************************************)
C14_EmptyTokenPolicy ==
    /\ [](/\ \A i \in 1..Len(lexed) :
                lexed[i].text = <<>>
                    => /\ allow_whitespace
                       /\ Emitted[i] = Ident(Str(<<" ">>), Emitted[i].loc)
          /\ ~allow_whitespace =>
                \A i \in 1..Len(Emitted) :
                    IsBlank(i) => Emitted[i].kind = "Section")
    /\ [][EmptyFlushStep =>
            tokens' = IF allow_whitespace
                      THEN Append(tokens, Ident(Str(<<" ">>), loc))
                      ELSE tokens]_vars

\* Reached: with allow_whitespace true, two flushes of the empty pending
\* text have each emitted an Ident(" ").
C14_Witness ==
    /\ pc = "scan"
    /\ allow_whitespace
    /\ Len(lexed) = 2
    /\ lexed[1].text = <<>>
    /\ lexed[2].text = <<>>
    /\ tokens[2].kind = "Ident"
    /\ tokens[2].text = Str(<<" ">>)

\* A step of the scan in Section mode on a character that is not the
\* backslash and is the end marker of a section with the candidates' start.
ClosesOnEndMarker ==
    /\ pc = "scan"
    /\ mode = "Section"
    /\ index + 1 < Len(buffer)
    /\ buffer[index + 1] < 128
    /\ buffer[index + 1] # Chr["\\"]
    /\ section # <<>>
    /\ is_section_end(section[1].start, <<buffer[index + 1]>>).ok
    /\ index' = index + 1

(***************************************************************************)
(* C15.  Whenever Section mode closes on a character that matches an end   *)
(* marker, the token emitted at that step is Section(name, text, loc),     *)
(* name the declared name of the section with that start and that end      *)
(* marker and text the characters accumulated between the two markers; the *)
(* candidate list becomes empty and the mode returns to Normal.  This      *)
(* holds whatever text was pending in Normal mode when the start marker    *)
(* was read.                                                               *)
(***************************************************************************)
C15_CloseEmitsSection ==
    [][ClosesOnEndMarker =>
        LET start == section[1].start
            end == <<buffer[index + 1]>>
        IN  /\ Len(tokens') = Len(tokens) + 1
            /\ SubSeq(tokens', 1, Len(tokens)) = tokens
            /\ tokens'[Len(tokens')].kind = "Section"
            /\ tokens'[Len(tokens')].name = section_exists(start, end).name
            /\ \E k \in 1..Len(token) :
                /\ <<token[k]>> = start
                /\ tokens'[Len(tokens')].text = SubSeq(token, k + 1, Len(token))
            /\ section' = <<>>
            /\ mode' = "Normal"]_vars

\* The index of the iteration that emitted a token whose whole text is the
\* byte at 0-based index k exists: the byte was emitted as its own token.
OwnToken(k) ==
    \E i \in 1..Len(lexed) :
        /\ lexed[i].at = k
        /\ lexed[i].text = <<buffer[k + 1]>>
        /\ result.tokens[i].kind \in {"Symbol", "Keyword"}

(***************************************************************************)
(* C16.  Whenever a character is processed in Normal mode with no section  *)
(* open and that character or the next one is a registered symbol, the     *)
(* pending text is classified, emitted and cleared at that step; so a      *)
(* registered symbol character outside a section is always emitted as its  *)
(* own one-character token, never merged with an adjacent identifier or    *)
(* number.  Stated for the buffers that hold no section start marker, and  *)
(* for the symbol characters other than the space.                         *)
(***************************************************************************)
C16_SymbolOwnToken ==
    (/\ pc = "done"
     /\ result.status = "ok"
     /\ \A j \in 1..Len(buffer) : ~is_section_start(<<buffer[j]>>).ok)
        => \A k \in 0..(Len(buffer) - 1) :
            buffer[k + 1] \in SymbolChars \ {Chr[" "]} => OwnToken(k)

(***************************************************************************)
(* C17.  After k bytes of the buffer have been consumed, the cursor is     *)
(* (1 + the number of newline bytes among them, 1 + the number of bytes    *)
(* consumed since the last newline): the position of the byte that comes   *)
(* next.  This includes the bytes inside sections and the byte after a     *)
(* backslash.                                                              *)
(***************************************************************************)
C17_CursorInvariant ==
    pc = "scan" => loc = PosOf(index)

(***************************************************************************)
(* C18.  Every byte of the buffer is decoded as a character before the     *)
(* call returns: a buffer holding a byte that is not valid single-byte     *)
(* text (128 or above) at any position, the final byte and a byte that     *)
(* follows a backslash inside an open section included, makes tokenize     *)
(* return the failure.                                                     *)
(***************************************************************************)
C18_EveryByteDecoded ==
    (pc = "done" /\ \E j \in 1..Len(buffer) : ~FromUtf8Ok(buffer[j]))
        => result.status = "err"

(***************************************************************************)
(* C19.  The final byte of the buffer is never processed by the scan       *)
(* rules: no emitted token contains the character of the final byte, text  *)
(* still pending when the scan reaches the end of the buffer is discarded  *)
(* and not emitted, and a buffer of length 0 or 1 always yields the empty  *)
(* token sequence.                                                         *)
(***************************************************************************)
C19_FinalByteSkipped ==
    /\ \A i \in 1..Len(lexed) : lexed[i].at + 1 < Len(buffer)
    /\ pc = "done" /\ result.status = "ok" => Len(result.tokens) = Len(lexed)
    /\ pc = "done" /\ Len(buffer) <= 1 => result = Ok(<<>>)

(***************************************************************************)
(* C19, amended.  The final byte of the buffer is never processed by the   *)
(* scan rules: every token is emitted by an iteration before the final     *)
(* byte's and holds only bytes up to that iteration's, the iteration of    *)
(* the final byte and the return emit nothing, so text still pending at    *)
(* the end of the buffer is discarded, and a buffer of length 0 or 1 never *)
(* yields a token: the call returns the empty token sequence, or the       *)
(* failure when the single byte is not valid text.                         *)
(***************************************************************************)
C19_FinalByteNeverProcessed ==
    /\ [](/\ \A i \in 1..Len(lexed) : lexed[i].at + 1 < Len(buffer)
          /\ Len(Emitted) = Len(lexed)
          /\ pc = "done" /\ Len(buffer) <= 1 =>
                result = IF buffer # <<>> /\ ~FromUtf8Ok(buffer[1])
                         THEN Err ELSE Ok(<<>>))
    /\ [][/\ (pc = "scan" /\ index + 1 >= Len(buffer) /\ pc' = "scan")
                => tokens' = tokens
          /\ (pc = "scan" /\ pc' = "done" /\ result'.status = "ok")
                => result'.tokens = tokens]_vars

\* Reached: the scan is at the end of a buffer with tokens emitted and a
\* text still pending, which the return is about to discard.
C19_Witness ==
    /\ pc = "scan"
    /\ ~(index < Len(buffer))
    /\ token # <<>>
    /\ tokens # <<>>
    /\ mode = "Normal"

\* The sections of the grammar whose start marker is start, in declaration
\* order.
DeclaredWith(start) ==
    LET Same(s) == s.start = start
    IN  SelectSeq(sections, Same)

(***************************************************************************)
(* C20.  At every step of the scan the mode is Section exactly when the    *)
(* candidate list is not empty, so the lookup through section[0] never     *)
(* reads an empty list; all candidates carry the same start marker, the    *)
(* one character that opened the section, and the candidates carry, one    *)
(* each and in order, the end markers of the grammar's sections with that  *)
(* start marker.                                                           *)
(***************************************************************************)
C20_ModeAndCandidates ==
    /\ mode = "Section" <=> section # <<>>
    /\ mode = "Section" => pc = "scan"
    /\ section # <<>> =>
        LET start == section[1].start
        IN  /\ Len(start) = 1
            /\ \E k \in 1..Len(token) : <<token[k]>> = start
            /\ \A i \in 1..Len(section) : section[i].start = start
            /\ Len(section) = Len(DeclaredWith(start))
            /\ \A i \in 1..Len(section) :
                section[i].end = DeclaredWith(start)[i].end

\* Reached: a section with two candidates is open and a character of its
\* text has been read.
C20_Witness ==
    /\ pc = "scan"
    /\ mode = "Section"
    /\ Len(section) = 2
    /\ section[1].end # section[2].end
    /\ Len(token) > 1

====
